---- MODULE Spec2Model ----
(***************************************************************************)
(* Ingestion-and-retrieval pipeline of the training system: caption        *)
(* chunking, the per-video Chroma collections (vector_store_service.py),   *)
(* the shared Qdrant collection with its KnowledgeBase records             *)
(* (vector_store.py, rag_service.py, routes/videos.py), retrieval merge    *)
(* and the confidence score (ai_chat_service.py).                          *)
(***************************************************************************)
EXTENDS Integers, Sequences, FiniteSets, TLC

VARIABLES
    \* ---- TranscriptService.chunk_transcript applied to one input ----
    entries,            \* the segment list handed to chunk_transcript
    chunk_size,         \* its chunk_size argument
    overlap,            \* its overlap argument
    chunks,             \* the list it returned
    chunk_pc,           \* "input" before the call, "done" after it
    \* ---- the merge and confidence steps of ask_question on one input ----
    context_chunks,     \* chunks found around the timestamp
    semantic_chunks,    \* chunks returned by the similarity search
    n_chunks,           \* the n_chunks argument
    merged,             \* the deduplicated list ask_question uses
    confidence,         \* _calculate_confidence(merged)
    merge_pc,           \* "input" before the steps, "done" after them
    \* ---- the Chroma stack: vector_store_service.py and its callers ----
    collections,            \* video id -> the points of video_<id>_transcripts
    vectorization_status,   \* video id -> Video.vectorization_status ("absent": no row yet)
    vectorization_error,    \* video id -> "set" when Video.vectorization_error holds a message
    ing,                    \* the ingestion in flight (add_transcript_chunks and its caller)
    ingest_log,             \* video id -> the last two successful ingestions
    ask,                    \* the ask_question call in flight
    answer,                 \* what ask_question returned ("none" while a call is in flight)
    \* ---- the Qdrant stack: vector_store.py, rag_service.py, routes/videos.py ----
    deployment,             \* [stack: "chroma" or "qdrant", videos: the ids its videos get]
    q_collection,           \* the one shared collection: [exists, size, points]
    embedding_dimension,    \* settings.embedding_dimension of the running process
    rag_up,                 \* get_rag_service() has built its RAGService in this process
    video_path,             \* video id -> path of its row (0: no such row)
    knowledge_base,         \* video id -> [present, vector_ids] of its KnowledgeBase row
    next_video_id,          \* the id the next Video row gets
    next_uuid,              \* stands for uuid4(): the next unused point id
    q_last_op,              \* the last request served: [op, videos it was carried out for]
    \* ---- one call of a function of the pipeline, taken on its own ----
    call                    \* [op, pc ("input" or "done"), args, result]

chunkVars == <<entries, chunk_size, overlap, chunks, chunk_pc>>
mergeVars == <<context_chunks, semantic_chunks, n_chunks, merged, confidence, merge_pc>>
chromaVars == <<collections, vectorization_status, vectorization_error, ing, ingest_log, ask, answer>>
qdrantVars == <<q_collection, embedding_dimension, rag_up, video_path, knowledge_base,
                next_video_id, next_uuid, q_last_op>>
pureVars == <<chunkVars, mergeVars, deployment, qdrantVars, call>>
vars == <<chunkVars, mergeVars, chromaVars, deployment, qdrantVars, call>>

\* ------------------------------------------------------------------------
\* Bounds of the model
\* ------------------------------------------------------------------------
MaxSegs == 12          \* longest synthetic segment list
MaxFreeSegs == 2       \* longest segment list with freely chosen times
MaxTime == 2           \* times of freely chosen segments range over 0..MaxTime
MaxChunkSize == 5      \* largest chunk_size tried
MaxList == 2           \* longest context / semantic result list
MaxIndex == 2          \* chunk indices range over 0..MaxIndex
MaxNChunks == 2        \* largest n_chunks tried
NumVideos == 2         \* video ids are 1..NumVideos
MaxSessions == 3       \* chat sessions ever created
MaxTurns == 2          \* successful asks per chat session
MaxStored == 7         \* stored chunks of the timestamp lookup are 0..MaxStored
MaxContext == 3        \* distinct chunks returned by _get_chunks_by_timestamp
NumTranscripts == 2    \* caption files are 0..NumTranscripts (0 has no usable cue)
NumFollowedVideos == 1 \* videos of the re-ingestion and question runs
MaxVideoIds == 3       \* Video rows of the Qdrant stack get the ids 1..MaxVideoIds
NumPaths == 2          \* upload paths are 1..NumPaths
MaxUploadChunks == 2   \* an uploaded transcript yields 0..MaxUploadChunks chunks
MaxPointIds == 4       \* point ids handed out are 1..MaxPointIds
NumDimensions == 2     \* configured embedding dimensions are 1..NumDimensions
MaxVttLines == 5       \* caption files have up to MaxVttLines lines
MaxTexts == 3          \* lists of texts handed to an embedding call
NumWriteIds == 2       \* point ids of a write taken on its own are 1..NumWriteIds
MaxFallbackDims == 34  \* dimensions asked of the fallback embedding

Min(a, b) == IF a <= b THEN a ELSE b
Max(a, b) == IF a >= b THEN a ELSE b

\* Sequences over S of length 0..n
SeqsUpTo(S, n) == UNION { [1..k -> S] : k \in 0..n }

\* ------------------------------------------------------------------------
\* TranscriptService.chunk_transcript
\* ------------------------------------------------------------------------
\* A chunk that takes its end_time from the first entry of the window
TranscriptChunkFirstEnd(chunk_entries, index) ==
    [ text       |-> [k \in 1..Len(chunk_entries) |-> chunk_entries[k].text],
      start_time |-> chunk_entries[1].start_time,
      end_time   |-> chunk_entries[1].end_time,
      index      |-> index ]

\* One TranscriptChunk of the window chunk_entries; text is the ' '.join of
\* the entries' texts, kept as the sequence of joined texts.
TranscriptChunk(chunk_entries, index) ==
    [ text       |-> [k \in 1..Len(chunk_entries) |-> chunk_entries[k].text],
      start_time |-> chunk_entries[1].start_time,
      end_time   |-> chunk_entries[Len(chunk_entries)].end_time,
      index      |-> index ]

\* A window that stops one entry early
SliceShort(es, i, size) == SubSeq(es, i + 1, Min(i + size - 1, Len(es)))

\* entries[i:i + chunk_size] for a 0-based i
Slice(es, i, size) == SubSeq(es, i + 1, Min(i + size, Len(es)))

\* A loop that steps by chunk_size, forgetting the overlap
RangeStepNoOverlap(size, ovl) == size

\* range(0, len(entries), chunk_size - overlap): the step of the loop
RangeStep(size, ovl) == size - ovl

RECURSIVE ChunkLoop(_, _, _, _, _, _)
ChunkLoop(es, size, ovl, i, index, acc) ==
    IF i >= Len(es) THEN acc
    ELSE LET chunk_entries == Slice(es, i, size) IN
         IF chunk_entries = << >>
         THEN ChunkLoop(es, size, ovl, i + RangeStep(size, ovl), index, acc)
         ELSE ChunkLoop(es, size, ovl, i + RangeStep(size, ovl), index + 1,
                        Append(acc, TranscriptChunk(chunk_entries, index)))

chunk_transcript(es, size, ovl) == ChunkLoop(es, size, ovl, 0, 0, << >>)

\* ---- inputs ----
Segment(s, e, t) == [start_time |-> s, end_time |-> e, text |-> t]

\* A caption track whose k-th cue (0-based) spans [10k, 10k + 7]
SyntheticEntries(n) == [k \in 1..n |-> Segment(10 * (k - 1), 10 * (k - 1) + 7, k)]

\* Short lists with every choice of times (ordered or not)
FreeEntries ==
    UNION { { [k \in 1..n |-> Segment(ts[k][1], ts[k][2], k)] :
              ts \in [1..n -> (0..MaxTime) \X (0..MaxTime)] } : n \in 0..MaxFreeSegs }

EntryLists == FreeEntries \cup { SyntheticEntries(n) : n \in 0..MaxSegs }

ChunkIdle ==
    /\ entries = << >>
    /\ chunk_size = 1
    /\ overlap = 0
    /\ chunks = << >>
    /\ chunk_pc = "off"

ChunkInit ==
    /\ entries \in EntryLists
    /\ chunk_size \in 1..MaxChunkSize
    /\ overlap \in 0..(chunk_size - 1)
    /\ chunks = << >>
    /\ chunk_pc = "input"

ChunkTranscript ==
    /\ chunk_pc = "input"
    /\ chunks' = chunk_transcript(entries, chunk_size, overlap)
    /\ chunk_pc' = "done"
    /\ UNCHANGED <<entries, chunk_size, overlap>>
    /\ UNCHANGED <<mergeVars, chromaVars, deployment, qdrantVars, call>>

\* ------------------------------------------------------------------------
\* AIChatService.ask_question: merge of the two retrieval results, and
\* AIChatService._calculate_confidence
\* ------------------------------------------------------------------------
\* A retrieved chunk is [index, distance]; distances are counted in halves
\* (distance 3 is 1.5), so the assumed range [0,2] is 0..4.

RECURSIVE AddContext(_, _, _)
\* "for chunk in context_chunks: if idx not in seen_indices: ..."
AddContext(cs, seen, acc) ==
    IF cs = << >> THEN acc
    ELSE LET chunk == Head(cs) IN
         IF chunk.index \notin seen
         THEN AddContext(Tail(cs), seen \cup {chunk.index}, Append(acc, chunk))
         ELSE AddContext(Tail(cs), seen, acc)

IndicesOf(cs) == { cs[k].index : k \in 1..Len(cs) }

RECURSIVE AddSemanticNoDedup(_, _, _, _)
\* A semantic loop that forgets the seen_indices test
AddSemanticNoDedup(cs, seen, acc, n) ==
    IF cs = << >> THEN acc
    ELSE LET chunk == Head(cs) IN
         IF Len(acc) < n * 2
         THEN AddSemanticNoDedup(Tail(cs), seen \cup {chunk.index}, Append(acc, chunk), n)
         ELSE AddSemanticNoDedup(Tail(cs), seen, acc, n)

RECURSIVE AddSemanticNoCap(_, _, _, _)
\* A semantic loop that forgets the len(chunks) < n_chunks * 2 test
AddSemanticNoCap(cs, seen, acc, n) ==
    IF cs = << >> THEN acc
    ELSE LET chunk == Head(cs) IN
         IF chunk.index \notin seen
         THEN AddSemanticNoCap(Tail(cs), seen \cup {chunk.index}, Append(acc, chunk), n)
         ELSE AddSemanticNoCap(Tail(cs), seen, acc, n)

RECURSIVE AddSemantic(_, _, _, _)
\* "for chunk in semantic_chunks: if idx not in seen_indices and
\*  len(chunks) < n_chunks * 2: ..."
AddSemantic(cs, seen, acc, n) ==
    IF cs = << >> THEN acc
    ELSE LET chunk == Head(cs) IN
         IF chunk.index \notin seen /\ Len(acc) < n * 2
         THEN AddSemantic(Tail(cs), seen \cup {chunk.index}, Append(acc, chunk), n)
         ELSE AddSemantic(Tail(cs), seen, acc, n)

MergeChunks(ctx, sem, n) ==
    LET first == AddContext(ctx, {}, << >>)
    IN  AddSemantic(sem, IndicesOf(first), first, n)

RECURSIVE SumDistance(_)
SumDistance(cs) == IF cs = << >> THEN 0 ELSE Head(cs).distance + SumDistance(Tail(cs))

\* Python's int(): truncation toward zero of num / den (den > 0)
TruncDiv(num, den) == IF num >= 0 THEN num \div den ELSE -((-num) \div den)

\* int((1 - avg_distance / 2) * 100) with avg = (sum / 2) / len:
\* (1 - sum / (4 len)) * 100 = (100 len - 25 sum) / len
BaseConfidence(cs) == TruncDiv(100 * Len(cs) - 25 * SumDistance(cs), Len(cs))

\* A score that is not clamped
ClampMissing(x) == x

Clamp(x) == Max(0, Min(100, x))

Boost(cs, c) == IF Len(cs) >= 3 THEN Min(100, c + 10) ELSE c

calculate_confidence(cs) ==
    IF cs = << >> THEN 0
    ELSE Boost(cs, Clamp(BaseConfidence(cs)))

\* ---- inputs ----
\* distances of semantic results: -0.5, 0.5, 1.0 and 2.5 (two lie outside [0,2])
SemanticDistances == {-1, 1, 2, 5}

ContextChunkSet == { [index |-> i, distance |-> 0] : i \in 0..MaxIndex }
SemanticChunkSet == { [index |-> i, distance |-> d] : i \in 0..MaxIndex, d \in SemanticDistances }

MergeIdle ==
    /\ context_chunks = << >>
    /\ semantic_chunks = << >>
    /\ n_chunks = 1
    /\ merged = << >>
    /\ confidence = 0
    /\ merge_pc = "off"

\* what _get_chunks_by_timestamp returns: chunks of one collection, each once
DistinctChunkLists(n) ==
    { cs \in [1..n -> ContextChunkSet] :
        \A i, j \in 1..n : i # j => cs[i].index # cs[j].index }

ContextLists == SeqsUpTo(ContextChunkSet, MaxList) \cup DistinctChunkLists(MaxContext)

MergeInit ==
    /\ context_chunks \in ContextLists
    /\ semantic_chunks \in SeqsUpTo(SemanticChunkSet, MaxList)
    /\ n_chunks \in 1..MaxNChunks
    /\ merged = << >>
    /\ confidence = 0
    /\ merge_pc = "input"

MergeAndScore ==
    /\ merge_pc = "input"
    /\ merged' = MergeChunks(context_chunks, semantic_chunks, n_chunks)
    /\ confidence' = calculate_confidence(merged')
    /\ merge_pc' = "done"
    /\ UNCHANGED <<context_chunks, semantic_chunks, n_chunks>>
    /\ UNCHANGED <<chunkVars, chromaVars, deployment, qdrantVars, call>>

\* ------------------------------------------------------------------------
\* The Chroma stack: one collection video_<id>_transcripts per video
\* (vector_store_service.py), written by VideoService._vectorize_transcript
\* and the process-transcript endpoint, read by AIChatService.ask_question
\* ------------------------------------------------------------------------
Videos == 1..NumVideos
Transcripts == 0..NumTranscripts

VectorizeChunkSize == 5
DefaultOverlap == 1
AskNChunks == 5
WindowSeconds == 30
TimestampTopK == 5

\* The cues parse_vtt finds in caption file T: file 0 has no usable cue, file
\* T > 0 has 4T - 2 of them; cue k (1-based) spans [10(k-1), 10(k-1) + 7] and
\* its text is particular to the file.
SegCountOf(T) == IF T = 0 THEN 0 ELSE 4 * T - 2
TranscriptEntries(T) ==
    [k \in 1..SegCountOf(T) |-> Segment(10 * (k - 1), 10 * (k - 1) + 7, 100 * T + k)]

\* TranscriptService.process_video_transcript after the download: parse + chunk
process_video_transcript(T) ==
    chunk_transcript(TranscriptEntries(T), VectorizeChunkSize, DefaultOverlap)

\* The point add_transcript_chunks builds for one chunk: id chunk_<video>_<index>,
\* the document and the metadata
ChunkId(v, index) == <<v, index>>
PointOf(v, chunk) ==
    [ id         |-> ChunkId(v, chunk.index),
      text       |-> chunk.text,
      start_time |-> chunk.start_time,
      end_time   |-> chunk.end_time,
      index      |-> chunk.index ]
PointsOf(v, cs) == { PointOf(v, cs[k]) : k \in 1..Len(cs) }
IdsOf(points) == { p.id : p \in points }

\* An add that stores nothing
CollectionAddNothing(coll, points) == coll

\* collection.add of a PersistentClient collection: a record whose id is
\* already stored is skipped, the stored one is kept
CollectionAdd(coll, points) == coll \cup { p \in points : p.id \notin IdsOf(coll) }

IdleIng == [pc |-> "idle", kind |-> "none", video |-> 0, chunk_dicts |-> << >>, transcript |-> 0,
            cleared |-> FALSE]
IdleAsk == [pc |-> "idle", video |-> 0, has_timestamp |-> FALSE, timestamp |-> 0,
            context_chunks |-> << >>, seen_empty |-> TRUE]
NoAnswer == [status |-> "none", video |-> 0, referenced_chunks |-> << >>, confidence |-> 0,
             context_prompt |-> "none", zero_chunks |-> FALSE, with_timestamp |-> FALSE,
             search_ok |-> FALSE, prompt_failed |-> FALSE, llm_ok |-> FALSE]

ChromaIdle ==
    /\ collections = [v \in Videos |-> {}]
    /\ vectorization_status = [v \in Videos |-> "absent"]
    /\ vectorization_error = [v \in Videos |-> "none"]
    /\ ing = IdleIng
    /\ ingest_log = [v \in Videos |-> << >>]
    /\ ask = IdleAsk
    /\ answer = NoAnswer

ChromaInit == ChromaIdle

VideoExists(v) == vectorization_status[v] \notin {"absent", "deleted"}

\* ---- VideoService._vectorize_transcript, up to its call of add_transcript_chunks ----
VectorizeBegin(v, T, loadOk) ==
    LET transcript_chunks == process_video_transcript(T) IN
    IF (~loadOk) \/ transcript_chunks = << >>
    THEN /\ vectorization_status' = [vectorization_status EXCEPT ![v] = "failed"]
         /\ vectorization_error' = [vectorization_error EXCEPT ![v] = "set"]
         /\ UNCHANGED ing
    ELSE /\ vectorization_status' = [vectorization_status EXCEPT ![v] = "processing"]
         /\ UNCHANGED vectorization_error
         /\ ing' = [pc |-> "clear", kind |-> "vectorize", video |-> v,
                    chunk_dicts |-> transcript_chunks, transcript |-> T,
                    cleared |-> FALSE]

\* VideoService.create_video: the row is created "pending", then vectorized
CreateVideo ==
    \E v \in deployment.videos, T \in Transcripts, loadOk \in BOOLEAN :
        /\ deployment.stack = "chroma"
        /\ ing.pc = "idle"
        /\ vectorization_status[v] = "absent"
        /\ VectorizeBegin(v, T, loadOk)
        /\ UNCHANGED <<collections, ingest_log, ask, answer, pureVars>>

\* trigger_vectorization.py: vectorize a video that is "pending"
TriggerVectorization ==
    \E v \in deployment.videos, T \in Transcripts, loadOk \in BOOLEAN :
        /\ deployment.stack = "chroma"
        /\ ing.pc = "idle"
        /\ vectorization_status[v] = "pending"
        /\ VectorizeBegin(v, T, loadOk)
        /\ UNCHANGED <<collections, ingest_log, ask, answer, pureVars>>

\* reset_failed_videos.py: every "failed" video becomes "pending"
ResetFailedVideos ==
    /\ deployment.stack = "chroma"
    /\ \E v \in deployment.videos : vectorization_status[v] = "failed"
    /\ vectorization_status' =
           [v \in Videos |-> IF vectorization_status[v] = "failed" THEN "pending"
                             ELSE vectorization_status[v]]
    /\ vectorization_error' =
           [v \in Videos |-> IF vectorization_status[v] = "failed" THEN "none"
                             ELSE vectorization_error[v]]
    /\ UNCHANGED <<collections, ing, ingest_log, ask, answer, pureVars>>

\* routes/chat.py process_transcript, up to its call of add_transcript_chunks
ProcessTranscript ==
    \E v \in deployment.videos, T \in Transcripts, loadOk \in BOOLEAN :
        /\ deployment.stack = "chroma"
        /\ ing.pc = "idle"
        /\ VideoExists(v)
        /\ ing' = IF loadOk
                  THEN [pc |-> "clear", kind |-> "process", video |-> v,
                        chunk_dicts |-> process_video_transcript(T), transcript |-> T,
                        cleared |-> FALSE]
                  ELSE ing
        /\ UNCHANGED <<collections, vectorization_status, vectorization_error, ingest_log, ask, answer,
                     pureVars>>

\* ---- VectorStoreService.add_transcript_chunks(video, chunks, clear_existing=True) ----
\* A clearing step that leaves every chunk but the first in place
ClearCollectionPartly(coll, ok) == IF ok THEN { p \in coll : p.index # 0 } ELSE coll

\* A clearing step that swaps the new chunks in without emptying the collection
ClearCollectionKept(coll, ok) == coll

\* delete_collection + _get_or_create_collection; a failure is logged and the
\* call goes on with the collection as it is
ClearCollection(coll, ok) == IF ok THEN {} ELSE coll

ClearExisting ==
    \E ok \in BOOLEAN :
        /\ ing.pc = "clear"
        /\ collections' = [collections EXCEPT ![ing.video] = ClearCollection(@, ok)]
        /\ ing' = [ing EXCEPT !.pc = "embed", !.cleared = ok]
        /\ UNCHANGED <<vectorization_status, vectorization_error, ingest_log, ask, answer, pureVars>>

\* A caller that starts add_transcript_chunks again when it raises
IngestionRestarted ==
    /\ vectorization_status' = vectorization_status
    /\ vectorization_error' = vectorization_error
    /\ ing' = [ing EXCEPT !.pc = "clear"]

\* A caller that lets the failure go without noting it on the video
IngestionFailedSilently ==
    /\ vectorization_status' = vectorization_status
    /\ vectorization_error' = vectorization_error
    /\ ing' = IdleIng

\* what the caller does when add_transcript_chunks raises
IngestionFailed ==
    /\ vectorization_status' =
           IF ing.kind = "vectorize"
           THEN [vectorization_status EXCEPT ![ing.video] = "failed"]
           ELSE vectorization_status
    /\ vectorization_error' =
           IF ing.kind = "vectorize"
           THEN [vectorization_error EXCEPT ![ing.video] = "set"]
           ELSE vectorization_error
    /\ ing' = IdleIng

\* _generate_embeddings: raises when no text is left to embed or the provider fails
GenerateEmbeddings ==
    \E ok \in BOOLEAN :
        /\ ing.pc = "embed"
        /\ IF ok /\ ing.chunk_dicts # << >>
           THEN /\ ing' = [ing EXCEPT !.pc = "add"]
                /\ UNCHANGED <<vectorization_status, vectorization_error>>
           ELSE IngestionFailed
        /\ UNCHANGED <<collections, ingest_log, ask, answer, pureVars>>

LastTwo(log) == IF Len(log) > 2 THEN Tail(log) ELSE log

\* collection.add, "return True", and the caller's success path
AddAndReturn ==
    /\ ing.pc = "add"
    /\ collections' = [collections EXCEPT
           ![ing.video] = CollectionAdd(@, PointsOf(ing.video, ing.chunk_dicts))]
    /\ vectorization_status' =
           IF ing.kind = "vectorize"
           THEN [vectorization_status EXCEPT ![ing.video] = "completed"]
           ELSE vectorization_status
    /\ vectorization_error' =
           IF ing.kind = "vectorize"
           THEN [vectorization_error EXCEPT ![ing.video] = "none"]
           ELSE vectorization_error
    /\ ing' = IdleIng
    /\ UNCHANGED <<ask, answer, pureVars>>

AddToCollection == AddAndReturn /\ UNCHANGED ingest_log

\* The same step, with the ingestion noted in ingest_log: the caption file,
\* len(chunks) as the callers report it, and the ids handed to collection.add
AddToCollectionLogged ==
    /\ AddAndReturn
    /\ ingest_log' = [ingest_log EXCEPT ![ing.video] =
           LastTwo(Append(@, [transcript |-> ing.transcript,
                              chunk_count |-> Len(ing.chunk_dicts),
                              ids |-> IdsOf(PointsOf(ing.video, ing.chunk_dicts))]))]

\* ---- create_video and _vectorize_transcript commit by commit, as the videos
\* ---- table shows them: "pending", then "processing", then the outcome ----
StartedRun(v) == [IdleIng EXCEPT !.pc = "start", !.kind = "vectorize", !.video = v]

\* create_video: the row is committed "pending", _vectorize_transcript is called
CreateVideoRow ==
    \E v \in deployment.videos :
        /\ deployment.stack = "chroma"
        /\ ing.pc = "idle"
        /\ vectorization_status[v] = "absent"
        /\ vectorization_status' = [vectorization_status EXCEPT ![v] = "pending"]
        /\ ing' = StartedRun(v)
        /\ UNCHANGED <<collections, vectorization_error, ingest_log, ask, answer, pureVars>>

\* trigger_vectorization.py: _vectorize_transcript is called for a "pending" video
TriggerRun ==
    \E v \in deployment.videos :
        /\ deployment.stack = "chroma"
        /\ ing.pc = "idle"
        /\ vectorization_status[v] = "pending"
        /\ ing' = StartedRun(v)
        /\ UNCHANGED <<collections, vectorization_status, vectorization_error, ingest_log,
                       ask, answer, pureVars>>

\* video.vectorization_status = "processing"; db.commit()
VectorizeStart ==
    /\ ing.pc = "start"
    /\ vectorization_status' = [vectorization_status EXCEPT ![ing.video] = "processing"]
    /\ ing' = [ing EXCEPT !.pc = "load"]
    /\ UNCHANGED <<collections, vectorization_error, ingest_log, ask, answer, pureVars>>

\* process_video_transcript and the test for an empty chunk list
VectorizeLoad ==
    \E T \in Transcripts, loadOk \in BOOLEAN :
        LET transcript_chunks == process_video_transcript(T) IN
        /\ ing.pc = "load"
        /\ IF (~loadOk) \/ transcript_chunks = << >>
           THEN IngestionFailed
           ELSE /\ ing' = [ing EXCEPT !.pc = "clear", !.chunk_dicts = transcript_chunks,
                                      !.transcript = T]
                /\ UNCHANGED <<vectorization_status, vectorization_error>>
        /\ UNCHANGED <<collections, ingest_log, ask, answer, pureVars>>

\* ---- VideoService.delete_video: the files and the row go, nothing else ----
DeleteVideoRow ==
    \E v \in deployment.videos :
        /\ deployment.stack = "chroma"
        /\ VideoExists(v)
        /\ ing.video # v
        /\ vectorization_status' = [vectorization_status EXCEPT ![v] = "deleted"]
        /\ vectorization_error' = [vectorization_error EXCEPT ![v] = "none"]
        /\ UNCHANGED <<collections, ing, ingest_log, ask, answer, pureVars>>

\* ---- AIChatService.ask_question ----
Abs(x) == IF x >= 0 THEN x ELSE -x
Take(s, k) == SubSeq(s, 1, Min(k, Len(s)))

\* list.sort(key=...) on a sequence of [key, item]: stable, ascending
InsertByKey(sorted, x) ==
    LET n == Cardinality({ i \in 1..Len(sorted) : sorted[i].key <= x.key })
    IN  SubSeq(sorted, 1, n) \o <<x>> \o SubSeq(sorted, n + 1, Len(sorted))

RECURSIVE StableSort(_)
StableSort(s) ==
    IF s = << >> THEN << >>
    ELSE InsertByKey(StableSort(SubSeq(s, 1, Len(s) - 1)), s[Len(s)])

Items(s) == [k \in 1..Len(s) |-> s[k].item]

\* collection.get(): the stored points, in the order of their index
RECURSIVE CollectionGet(_)
CollectionGet(coll) ==
    IF coll = {} THEN << >>
    ELSE LET p == CHOOSE q \in coll : \A r \in coll : q.index <= r.index
         IN  <<p>> \o CollectionGet(coll \ {p})

Retrieved(p, d) ==
    [index |-> p.index, distance |-> d, start_time |-> p.start_time,
     end_time |-> p.end_time, text |-> p.text]

\* A lookup that keeps the chunks whose start lies in the window
GetChunksStartingInWindow(coll, timestamp, window_seconds) ==
    LET results      == CollectionGet(coll)
        start_window == Max(0, timestamp - window_seconds)
        end_window   == timestamp + window_seconds
        InWindow(p)  == p.start_time <= end_window /\ p.start_time >= start_window
        relevant     == SelectSeq(results, InWindow)
        keyed        == [k \in 1..Len(relevant) |->
                            [key  |-> Abs(relevant[k].start_time - timestamp),
                             item |-> Retrieved(relevant[k], 0)]]
    IN  Take(Items(StableSort(keyed)), TimestampTopK)

\* _get_chunks_by_timestamp(video, timestamp, window_seconds)
get_chunks_by_timestamp(coll, timestamp, window_seconds) ==
    LET results      == CollectionGet(coll)
        start_window == Max(0, timestamp - window_seconds)
        end_window   == timestamp + window_seconds
        InWindow(p)  == p.start_time <= end_window /\ p.end_time >= start_window
        relevant     == SelectSeq(results, InWindow)
        keyed        == [k \in 1..Len(relevant) |->
                            [key  |-> Abs(relevant[k].start_time - timestamp),
                             item |-> Retrieved(relevant[k], 0)]]
    IN  Take(Items(StableSort(keyed)), TimestampTopK)

\* The distance (in halves) the index reports between the question and a
\* stored chunk: a fixed function of the chunk's text
PointDistance(p) == (p.text[1] + 2 * p.index) % 5

\* collection.query(n_results): the nearest points first
CollectionQuery(coll, n_results) ==
    LET results == CollectionGet(coll)
        keyed   == [k \in 1..Len(results) |->
                       [key  |-> PointDistance(results[k]),
                        item |-> Retrieved(results[k], PointDistance(results[k]))]]
    IN  Take(Items(StableSort(keyed)), n_results)

\* A search that embeds the question before it looks at the collection
SearchAlwaysEmbeds(coll) == TRUE

\* search_similar_chunks never asks for an embedding of the question when
\* the collection is empty
SearchNeedsEmbedding(coll) == coll # {}

\* search_similar_chunks(video, query, n_results) once the embedding is there
search_similar_chunks(coll, n_results) ==
    IF coll = {} THEN << >>
    ELSE CollectionQuery(coll, Min(n_results, Cardinality(coll)))

AskTimestamps == {0, 65}

\* ask_question up to the end of _get_chunks_by_timestamp
AskBegin ==
    \E v \in deployment.videos, has_timestamp \in BOOLEAN, t \in AskTimestamps :
        /\ deployment.stack = "chroma"
        /\ ask.pc = "idle"
        /\ VideoExists(v)
        /\ (~has_timestamp) => t = 0
        /\ ask' = [pc |-> "search", video |-> v, has_timestamp |-> has_timestamp,
                   timestamp |-> t,
                   context_chunks |->
                       IF has_timestamp
                       THEN get_chunks_by_timestamp(collections[v], t, WindowSeconds)
                       ELSE << >>,
                   seen_empty |-> (has_timestamp => collections[v] = {})]
        /\ answer' = NoAnswer
        /\ UNCHANGED <<collections, vectorization_status, vectorization_error, ing, ingest_log,
                     pureVars>>

ReferencedChunks(cs) ==
    [k \in 1..Len(cs) |-> [text |-> cs[k].text, start_time |-> cs[k].start_time,
                           end_time |-> cs[k].end_time, index |-> cs[k].index]]

\* An ask_question whose follow-up prompt failure is not caught
AskFailsWithPrompt(searchOk, promptFailed, llmOk) == searchOk /\ (~promptFailed) /\ llmOk

\* ask_question returns its tuple when no exception leaves its try block: the
\* search and the generation of the answer raise, _generate_context_prompt
\* catches whatever its own calls raise
AskReturns(searchOk, promptFailed, llmOk) == searchOk /\ llmOk

\* the rest of ask_question: the semantic search, the merge, the follow-up
\* prompt, the model call, the confidence and the returned tuple.
\* embedOk: the embedding of the question is obtained; promptOk: the follow-up
\* prompt is generated (a failure there is swallowed); llmOk: the answer is
\* generated, that is the chat_qa_main template is rendered and the chat
\* completion returns.
AskFinish ==
    \E embedOk \in BOOLEAN, promptOk \in BOOLEAN, llmOk \in BOOLEAN :
        LET coll     == collections[ask.video]
            searchOk == SearchNeedsEmbedding(coll) => embedOk
            semantic == search_similar_chunks(coll, AskNChunks)
            cs       == MergeChunks(ask.context_chunks, semantic, AskNChunks)
            asked    == ask.has_timestamp /\ ask.context_chunks # << >>
            prompt   == IF asked /\ promptOk THEN "prompt" ELSE "none"
            zero     == ask.seen_empty /\ coll = {}
        IN
        /\ ask.pc = "search"
        /\ (~asked) => promptOk
        /\ answer' =
              IF AskReturns(searchOk, asked /\ ~promptOk, llmOk)
              THEN [status |-> "ok", video |-> ask.video,
                    referenced_chunks |-> ReferencedChunks(cs),
                    confidence |-> calculate_confidence(cs),
                    context_prompt |-> prompt, zero_chunks |-> zero,
                    with_timestamp |-> ask.has_timestamp,
                    search_ok |-> searchOk, prompt_failed |-> asked /\ ~promptOk,
                    llm_ok |-> llmOk]
              ELSE [status |-> "error", video |-> ask.video,
                    referenced_chunks |-> << >>, confidence |-> 0,
                    context_prompt |-> "none", zero_chunks |-> zero,
                    with_timestamp |-> ask.has_timestamp,
                    search_ok |-> searchOk, prompt_failed |-> asked /\ ~promptOk,
                    llm_ok |-> llmOk]
        /\ ask' = IdleAsk
        /\ UNCHANGED <<collections, vectorization_status, vectorization_error, ing, ingest_log,
                     pureVars>>

\* ------------------------------------------------------------------------
\* The Qdrant stack: one collection shared by all videos (vector_store.py),
\* written through RAGService (rag_service.py) by the upload and delete
\* routes (routes/videos.py), with the ids recorded in KnowledgeBase rows
\* ------------------------------------------------------------------------
VideoIds == 1..MaxVideoIds
Paths == 1..NumPaths
Dimensions == 1..NumDimensions

NoKB == [present |-> FALSE, vector_ids |-> << >>]
SeqToSet(s) == { s[k] : k \in 1..Len(s) }

\* the ids of the points whose payload names video v
IndexIdsOf(points, v) == { p.id : p \in { q \in points : q.video_id = v } }

\* A start-up check that keeps a collection of another dimension as it is
EnsureCollectionKeepsStale(coll, dimension) ==
    IF coll.exists THEN coll
    ELSE [exists |-> TRUE, size |-> dimension, points |-> {}]

\* VectorStoreService._ensure_collection
ensure_collection(coll, dimension) ==
    IF coll.exists /\ coll.size = dimension
    THEN coll
    ELSE [exists |-> TRUE, size |-> dimension, points |-> {}]

\* A delete that is not narrowed to the ids it is given
DeleteByIdsDropsAll(points, ids) == {}

\* VectorStoreService.delete_by_ids
delete_by_ids(points, ids) == { p \in points : p.id \notin SeqToSet(ids) }

\* VectorStoreService.upsert: a point replaces the stored point of the same id
upsert(points, new) == { p \in points : p.id \notin { n.id : n \in new } } \cup new

QdrantIdle ==
    /\ q_collection = [exists |-> FALSE, size |-> 0, points |-> {}]
    /\ embedding_dimension = 1
    /\ rag_up = FALSE
    /\ video_path = [v \in VideoIds |-> 0]
    /\ knowledge_base = [v \in VideoIds |-> NoKB]
    /\ next_video_id = 1
    /\ next_uuid = 1
    /\ q_last_op = [op |-> "none", videos |-> {}]

QdrantInit ==
    /\ q_collection = [exists |-> FALSE, size |-> 0, points |-> {}]
    /\ embedding_dimension \in Dimensions
    /\ rag_up = FALSE
    /\ video_path = [v \in VideoIds |-> 0]
    /\ knowledge_base = [v \in VideoIds |-> NoKB]
    /\ next_video_id = 1
    /\ next_uuid = 1
    /\ q_last_op = [op |-> "none", videos |-> {}]

\* The process is started again, possibly with another configured dimension;
\* the lru_cache of get_rag_service is empty in the new process
RestartProcess ==
    \E d \in Dimensions :
        /\ deployment.stack = "qdrant"
        /\ rag_up
        /\ embedding_dimension' = d
        /\ rag_up' = FALSE
        /\ q_last_op' = [op |-> "restart", videos |-> {}]
        /\ UNCHANGED <<q_collection, video_path, knowledge_base, next_video_id, next_uuid>>
        /\ UNCHANGED <<chunkVars, mergeVars, chromaVars, deployment, call>>

\* get_rag_service() -> RAGService() -> VectorStoreService(): _ensure_collection
InitRagService ==
    /\ deployment.stack = "qdrant"
    /\ ~rag_up
    /\ q_collection' = ensure_collection(q_collection, embedding_dimension)
    /\ rag_up' = TRUE
    /\ q_last_op' = [op |-> "init", videos |-> {}]
    /\ UNCHANGED <<embedding_dimension, video_path, knowledge_base, next_video_id, next_uuid>>
    /\ UNCHANGED <<chunkVars, mergeVars, chromaVars, deployment, call>>

\* the video rows stored under a path
ExistingAt(path) == { v \in VideoIds : video_path[v] = path }

\* _cleanup_existing_video: the replaced video's recorded points are deleted
cleanup_existing_video(points, kb) ==
    IF kb.present /\ kb.vector_ids # << >>
    THEN delete_by_ids(points, kb.vector_ids)
    ELSE points

\* routes/videos.py upload_video with RAGService.ingest_transcript: the
\* transcript is valid or not (_extract_segments), yields n chunks, and the
\* embedding call succeeds or not
UploadVideo ==
    \E path \in Paths, valid \in BOOLEAN, n \in 0..MaxUploadChunks, embedOk \in BOOLEAN :
        LET existing   == ExistingAt(path)
            cleaned    == IF existing = {} THEN q_collection.points
                          ELSE LET e == CHOOSE x \in existing : TRUE
                               IN  cleanup_existing_video(q_collection.points, knowledge_base[e])
            rows       == [v \in VideoIds |->
                              IF v \in existing THEN 0
                              ELSE IF v = next_video_id THEN path ELSE video_path[v]]
            kbs        == [v \in VideoIds |->
                              IF v \in existing THEN NoKB ELSE knowledge_base[v]]
            point_ids  == [k \in 1..n |-> next_uuid + k - 1]
            new_points == { [id |-> point_ids[k], video_id |-> next_video_id] : k \in 1..n }
            ingested   == valid /\ embedOk
        IN
        /\ deployment.stack = "qdrant"
        /\ rag_up
        /\ next_video_id <= MaxVideoIds
        /\ next_uuid + n - 1 <= MaxPointIds
        /\ video_path' = rows
        /\ next_video_id' = next_video_id + 1
        /\ IF ingested
           THEN /\ q_collection' = [q_collection EXCEPT
                       !.points = IF n > 0 THEN upsert(cleaned, new_points) ELSE cleaned]
                /\ knowledge_base' = [kbs EXCEPT
                       ![next_video_id] = [present |-> TRUE, vector_ids |-> point_ids]]
                /\ next_uuid' = next_uuid + n
           ELSE /\ q_collection' = [q_collection EXCEPT !.points = cleaned]
                /\ knowledge_base' = kbs
                /\ UNCHANGED next_uuid
        /\ q_last_op' = [op |-> "upload", videos |-> existing \cup {next_video_id}]
        /\ UNCHANGED <<embedding_dimension, rag_up>>
        /\ UNCHANGED <<chunkVars, mergeVars, chromaVars, deployment, call>>

\* routes/videos.py delete_video
DeleteVideo ==
    \E v \in VideoIds :
        /\ deployment.stack = "qdrant"
        /\ rag_up
        /\ video_path[v] # 0
        /\ q_collection' = [q_collection EXCEPT
               !.points = cleanup_existing_video(@, knowledge_base[v])]
        /\ video_path' = [video_path EXCEPT ![v] = 0]
        /\ knowledge_base' = [knowledge_base EXCEPT ![v] = NoKB]
        /\ q_last_op' = [op |-> "delete", videos |-> {v}]
        /\ UNCHANGED <<embedding_dimension, rag_up, next_video_id, next_uuid>>
        /\ UNCHANGED <<chunkVars, mergeVars, chromaVars, deployment, call>>

\* ------------------------------------------------------------------------
\* Calls taken on their own: call.op names the function, call.args holds its
\* arguments, call.result what it returned
\* ------------------------------------------------------------------------
NoDeployment == [stack |-> "none", videos |-> {}]
NoCall == [op |-> "none", pc |-> "off", args |-> << >>, result |-> << >>]
CallIdle == call = NoCall

\* The functions that sit idle while a single call is examined
NothingElse ==
    ChunkIdle /\ MergeIdle /\ ChromaIdle /\ deployment = NoDeployment /\ QdrantIdle

\* ------------------------------------------------------------------------
\* TranscriptService.parse_vtt. A caption file is a sequence of lines; a
\* line is known by what parse_vtt tests on it:
\*   "blank"       an empty line
\*   "header"      a line that starts with WEBVTT
\*   "note"        a line that starts with NOTE
\*   "ts_ok"       'HH:MM:SS.mmm --> HH:MM:SS.mmm'
\*   "ts_settings" a timestamp line with cue settings after the end time
\*                 ('... --> 00:00:05.000 align:start')
\*   "ts_first"    a well-formed timestamp line that reads '0 --> 1'
\*   "ts_rev"      a well-formed timestamp line whose end is before its start
\*   "ts_bad"      has '-->', two or three ':'-parts, a part that is no number
\*   "ts_odd"      has '-->', sides without two or three ':'-parts ('abc --> def')
\*   "digits"      only digits
\*   "ident"       a cue identifier such as 'cue-12'
\*   "text"        any other text
\* The line at position p of the file carries the text p, and a timestamp
\* line at position p reads 'p --> p + 1', but for "ts_first" ('0 --> 1')
\* and "ts_rev" ('p + 1 --> p').
\* ------------------------------------------------------------------------
VttLineKinds ==
    {"blank", "header", "note", "ts_ok", "ts_settings", "ts_first", "ts_rev",
     "ts_bad", "ts_odd", "digits", "ident", "text"}
TimestampKinds == {"ts_ok", "ts_settings", "ts_first", "ts_rev", "ts_bad", "ts_odd"}

\* the seconds written on the two sides of a timestamp line
WrittenStart(line) ==
    IF line.kind = "ts_first" THEN 0
    ELSE IF line.kind = "ts_rev" THEN line.pos + 1
    ELSE line.pos
WrittenEnd(line) ==
    IF line.kind = "ts_first" THEN 1
    ELSE IF line.kind = "ts_rev" THEN line.pos
    ELSE line.pos + 1

VttLines(kinds) == [p \in 1..Len(kinds) |-> [kind |-> kinds[p], pos |-> p]]

\* re.sub(r'^WEBVTT[^\n]*\n+', '') and re.sub(r'NOTE[^\n]*\n+', ''): the line
\* goes together with the newlines after it, that is with the blank lines
\* that follow it; a last line, which no newline follows, stays
RECURSIVE DropBlanks(_)
DropBlanks(ls) ==
    IF ls # << >> /\ Head(ls).kind = "blank" THEN DropBlanks(Tail(ls)) ELSE ls

RECURSIVE StripLines(_, _)
StripLines(ls, kind) ==
    IF ls = << >> THEN << >>
    ELSE IF Head(ls).kind = kind /\ Len(ls) > 1
         THEN StripLines(DropBlanks(Tail(ls)), kind)
         ELSE <<Head(ls)>> \o StripLines(Tail(ls), kind)

\* re.split(r'\n\n+', content.strip()): the blocks of lines between blank lines
RECURSIVE SplitCues(_, _)
SplitCues(ls, cur) ==
    IF ls = << >> THEN (IF cur = << >> THEN << >> ELSE <<cur>>)
    ELSE IF Head(ls).kind = "blank"
         THEN (IF cur = << >> THEN << >> ELSE <<cur>>) \o SplitCues(Tail(ls), << >>)
         ELSE SplitCues(Tail(ls), Append(cur, Head(ls)))

\* _parse_timestamp on the two sides of the timestamp line: the seconds, or
\* a ValueError; a side without two or three ':'-parts gives 0.0
TimestampRaises(line) == line.kind = "ts_bad"
StartTimeOf(line) == IF line.kind = "ts_odd" THEN 0 ELSE WrittenStart(line)
EndTimeOf(line) == IF line.kind \in {"ts_odd", "ts_settings"} THEN 0 ELSE WrittenEnd(line)

\* the text lines of a cue: no timestamp line, no identifier or number on the
\* first line, no number on any line
IsTextLine(lines, i) ==
    /\ lines[i].kind \notin TimestampKinds
    /\ ~(i = 1 /\ lines[i].kind \in {"ident", "digits"})
    /\ lines[i].kind # "digits"

RECURSIVE TextOf(_, _)
TextOf(lines, i) ==
    IF i > Len(lines) THEN << >>
    ELSE (IF IsTextLine(lines, i) THEN <<lines[i].pos>> ELSE << >>) \o TextOf(lines, i + 1)

\* the body of the loop over the cues: the entries one cue adds
ParseCue(lines) ==
    IF Len(lines) < 2 THEN << >>
    ELSE LET timestamp_line ==
                 IF lines[1].kind \in TimestampKinds THEN <<lines[1]>>
                 ELSE IF lines[2].kind \in TimestampKinds THEN <<lines[2]>>
                 ELSE << >>
         IN  IF timestamp_line = << >> THEN << >>
             ELSE IF TimestampRaises(timestamp_line[1]) THEN << >>
             ELSE IF TextOf(lines, 1) = << >> THEN << >>
             ELSE << [start_time |-> StartTimeOf(timestamp_line[1]),
                      end_time   |-> EndTimeOf(timestamp_line[1]),
                      text       |-> TextOf(lines, 1)] >>

RECURSIVE ParseCues(_)
ParseCues(cues) ==
    IF cues = << >> THEN << >> ELSE ParseCue(Head(cues)) \o ParseCues(Tail(cues))

parse_vtt(kinds) ==
    ParseCues(SplitCues(StripLines(StripLines(VttLines(kinds), "header"), "note"), << >>))

ParseInit ==
    /\ NothingElse
    /\ \E kinds \in SeqsUpTo(VttLineKinds, MaxVttLines) :
           call = [op |-> "parse_vtt", pc |-> "input", args |-> kinds, result |-> << >>]

ParseVtt ==
    /\ call.op = "parse_vtt"
    /\ call.pc = "input"
    /\ call' = [call EXCEPT !.pc = "done", !.result = parse_vtt(call.args)]
    /\ UNCHANGED <<chunkVars, mergeVars, chromaVars, deployment, qdrantVars>>

\* ------------------------------------------------------------------------
\* The embedding calls: VectorStoreService._generate_embeddings (Chroma
\* stack), EmbeddingService.embed_texts and its _fallback_embedding (Qdrant
\* stack). Texts are "", " ", "a", "b".
\* ------------------------------------------------------------------------
Texts == {"", " ", "a", "b"}
TextCode(t) == CASE t = "" -> 0 [] t = " " -> 1 [] t = "a" -> 2 [] OTHER -> 3

\* str.strip()
Strip(t) == IF t = " " THEN "" ELSE t

\* the vector the provider returns for a text (response.data, in input order)
ProviderEmbedding(t) == <<[num |-> 1000 + TextCode(t), den |-> 1]>>
ProviderEmbeddings(texts) == [k \in 1..Len(texts) |-> ProviderEmbedding(texts[k])]

\* hashlib.sha256(text).digest(): 32 bytes fixed by the text
DigestLen == 32
ByteMax == 255
Digest(t) == [k \in 1..DigestLen |-> (97 * TextCode(t) + 85 * k + 86) % (ByteMax + 1)]

\* A fallback that takes the digest once, whatever the dimension
RepeatOnce(dims, n) == 1

\* math.ceil(dims / len(digest))
RepeatFactor(dims, n) == (dims + n - 1) \div n

RECURSIVE Repeat(_, _)
Repeat(s, k) == IF k <= 0 THEN << >> ELSE s \o Repeat(s, k - 1)

\* EmbeddingService._fallback_embedding(text, dims): the components byte / 255.0
fallback_embedding(t, dims) ==
    LET digest == Digest(t)
        data   == Take(Repeat(digest, RepeatFactor(dims, Len(digest))), dims)
    IN  [k \in 1..Len(data) |-> [num |-> data[k], den |-> ByteMax]]

EmbedResult(status, vectors) == [status |-> status, vectors |-> vectors]

\* The texts _generate_embeddings sends to the provider
CleanedTexts(texts) ==
    LET kept == SelectSeq(texts, LAMBDA t : t # "" /\ Strip(t) # "")
    IN  [k \in 1..Len(kept) |-> Strip(kept[k])]

\* VectorStoreService._generate_embeddings(texts), the provider answering or not
generate_embeddings(texts, providerOk) ==
    LET cleaned_texts == CleanedTexts(texts) IN
    IF cleaned_texts = << >> THEN EmbedResult("error", << >>)
    ELSE IF ~providerOk THEN EmbedResult("error", << >>)
    ELSE EmbedResult("ok", ProviderEmbeddings(cleaned_texts))

\* EmbeddingService.embed_texts(texts): with a client (an API key is set) the
\* provider is called, without one the fallback is used
embed_texts(texts, has_client, dims, providerOk) ==
    IF texts = << >> THEN EmbedResult("ok", << >>)
    ELSE IF has_client
         THEN (IF providerOk THEN EmbedResult("ok", ProviderEmbeddings(texts))
               ELSE EmbedResult("error", << >>))
         ELSE EmbedResult("ok", [k \in 1..Len(texts) |-> fallback_embedding(texts[k], dims)])

EmbedInit ==
    /\ NothingElse
    /\ \E op \in {"_generate_embeddings", "embed_texts"},
          texts \in SeqsUpTo(Texts, MaxTexts),
          has_client \in BOOLEAN, dims \in Dimensions :
           /\ (op = "_generate_embeddings") => (has_client /\ dims = 1)
           /\ call = [op |-> op, pc |-> "input",
                      args |-> [texts |-> texts, has_client |-> has_client, dims |-> dims],
                      result |-> << >>]

GenerateEmbeddingsCall ==
    \E providerOk \in BOOLEAN :
        /\ call.op = "_generate_embeddings"
        /\ call.pc = "input"
        /\ call' = [call EXCEPT !.pc = "done",
                       !.result = generate_embeddings(call.args.texts, providerOk)]
        /\ UNCHANGED <<chunkVars, mergeVars, chromaVars, deployment, qdrantVars>>

EmbedTextsCall ==
    \E providerOk \in BOOLEAN :
        /\ call.op = "embed_texts"
        /\ call.pc = "input"
        /\ call' = [call EXCEPT !.pc = "done",
                       !.result = embed_texts(call.args.texts, call.args.has_client,
                                              call.args.dims, providerOk)]
        /\ UNCHANGED <<chunkVars, mergeVars, chromaVars, deployment, qdrantVars>>

\* _fallback_embedding called twice on the same text and dimension, in two
\* processes (what a process has of its own, such as its hash seed, differs)
FallbackInit ==
    /\ NothingElse
    /\ \E t \in Texts, dims \in 1..MaxFallbackDims :
           call = [op |-> "_fallback_embedding", pc |-> "input",
                   args |-> [text |-> t, dims |-> dims],
                   result |-> << >>]

FallbackFirstCall ==
    /\ call.op = "_fallback_embedding"
    /\ call.pc = "input"
    /\ call' = [call EXCEPT !.pc = "once",
                   !.result = <<fallback_embedding(call.args.text, call.args.dims)>>]
    /\ UNCHANGED <<chunkVars, mergeVars, chromaVars, deployment, qdrantVars>>

FallbackSecondCall ==
    /\ call.op = "_fallback_embedding"
    /\ call.pc = "once"
    /\ call' = [call EXCEPT !.pc = "done",
                   !.result = Append(@, fallback_embedding(call.args.text, call.args.dims))]
    /\ UNCHANGED <<chunkVars, mergeVars, chromaVars, deployment, qdrantVars>>

\* ------------------------------------------------------------------------
\* A write of points taken on its own and applied twice: VectorStoreService.upsert
\* of the Qdrant stack, collection.add of the Chroma stack. A point is
\* [id, video_id, payload]; the stored points carry the payload "old".
\* ------------------------------------------------------------------------
WriteIds == 1..NumWriteIds
StoredPoints == SUBSET { [id |-> i, video_id |-> 1, payload |-> "old"] : i \in WriteIds }
BatchPoints == { [id |-> i, video_id |-> 1, payload |-> c] : i \in WriteIds, c \in {"old", "new"} }

\* the batches: lists of points of distinct ids (uuid4 ids, chunk indexes)
Batches ==
    { b \in SeqsUpTo(BatchPoints, NumWriteIds) :
        \A j, k \in 1..Len(b) : j # k => b[j].id # b[k].id }

\* "return [point.id for point in points]"
UpsertReturn(batch) == [k \in 1..Len(batch) |-> batch[k].id]

WriteInit ==
    /\ NothingElse
    /\ \E op \in {"upsert", "collection.add"}, stored \in StoredPoints, batch \in Batches :
           call = [op |-> op, pc |-> "input",
                   args |-> [stored |-> stored, batch |-> batch],
                   result |-> [store |-> stored, after_once |-> {}, returned |-> << >>]]

\* the write applied to what the store holds, for the first or the second time
WriteApplied(written, returned) ==
    call' = [call EXCEPT
                !.pc = IF call.pc = "input" THEN "once" ELSE "done",
                !.result = [store      |-> written,
                            after_once |-> IF call.pc = "input" THEN written
                                           ELSE call.result.after_once,
                            returned   |-> returned]]

QdrantUpsertCall ==
    /\ call.op = "upsert"
    /\ call.pc \in {"input", "once"}
    /\ WriteApplied(upsert(call.result.store, SeqToSet(call.args.batch)),
                    UpsertReturn(call.args.batch))
    /\ UNCHANGED <<chunkVars, mergeVars, chromaVars, deployment, qdrantVars>>

ChromaAddCall ==
    /\ call.op = "collection.add"
    /\ call.pc \in {"input", "once"}
    /\ WriteApplied(CollectionAdd(call.result.store, SeqToSet(call.args.batch)), << >>)
    /\ UNCHANGED <<chunkVars, mergeVars, chromaVars, deployment, qdrantVars>>

\* ------------------------------------------------------------------------
\* AIChatService._get_chunks_by_timestamp called on its own, on a collection
\* drawn from the chunks 0..MaxStored: chunk 0 spans [0, 200], chunk k > 0
\* spans [10 k, 10 k + 10]
\* ------------------------------------------------------------------------
StoredChunk(k) ==
    [ id         |-> ChunkId(1, k),
      text       |-> <<k>>,
      start_time |-> 10 * k,
      end_time   |-> IF k = 0 THEN 200 ELSE 10 * k + 10,
      index      |-> k ]

StoredCollections == { { StoredChunk(k) : k \in ks } : ks \in SUBSET (0..MaxStored) }

WindowInit ==
    /\ NothingElse
    /\ \E coll \in StoredCollections, t \in AskTimestamps, w \in {0, WindowSeconds} :
           call = [op |-> "get_chunks_by_timestamp", pc |-> "input",
                   args |-> [coll |-> coll, timestamp |-> t, window_seconds |-> w],
                   result |-> [ok |-> FALSE, chunks |-> << >>]]

\* the whole method: an exception of the collection read is logged and an
\* empty list is returned
GetChunksByTimestampCall ==
    \E getOk \in BOOLEAN :
        /\ call.op = "get_chunks_by_timestamp"
        /\ call.pc = "input"
        /\ call' = [call EXCEPT
               !.pc = "done",
               !.result = [ok     |-> getOk,
                           chunks |-> IF getOk
                                      THEN get_chunks_by_timestamp(call.args.coll,
                                               call.args.timestamp,
                                               call.args.window_seconds)
                                      ELSE << >>]]
        /\ UNCHANGED <<chunkVars, mergeVars, chromaVars, deployment, qdrantVars>>

\* ------------------------------------------------------------------------
\* The follow-up prompt of ask_question on its own. A reply of the model is
\* known by the number of its characters and of the blanks around them.
\* ------------------------------------------------------------------------
NoPrompt == [present |-> FALSE, length |-> 0]

ReplyLengths == {0, 1, 50, 99, 100, 101, 200}
Replies == { [length |-> n, blanks |-> b] : n \in ReplyLengths, b \in {0, 2} }

\* response.choices[0].message.content.strip()
StripReply(reply) == [present |-> TRUE, length |-> reply.length]

\* _generate_context_prompt: whatever its calls raise is logged, None is returned
generate_context_prompt(context_count, replyOk, reply) ==
    IF context_count = 0 THEN NoPrompt
    ELSE IF replyOk THEN StripReply(reply)
    ELSE NoPrompt

\* ask_question, step 2.5
context_prompt_of(has_timestamp, context_count, replyOk, reply) ==
    IF has_timestamp /\ context_count > 0
    THEN generate_context_prompt(context_count, replyOk, reply)
    ELSE NoPrompt

PromptInit ==
    /\ NothingElse
    /\ \E has_timestamp \in BOOLEAN, context_count \in 0..MaxList, reply \in Replies :
           /\ (~has_timestamp) => context_count = 0
           /\ call = [op |-> "context_prompt", pc |-> "input",
                      args |-> [has_timestamp |-> has_timestamp,
                                context_count |-> context_count, reply |-> reply],
                      result |-> NoPrompt]

ContextPromptCall ==
    \E replyOk \in BOOLEAN :
        /\ call.op = "context_prompt"
        /\ call.pc = "input"
        /\ call' = [call EXCEPT
               !.pc = "done",
               !.result = context_prompt_of(call.args.has_timestamp,
                              call.args.context_count, replyOk, call.args.reply)]
        /\ UNCHANGED <<chunkVars, mergeVars, chromaVars, deployment, qdrantVars>>

\* ------------------------------------------------------------------------
\* The /ask endpoint of routes/chat.py and the chat tables. call.result
\* holds the tables after the last request (the sessions with the numbers of
\* their user and assistant messages, the id of the next session) and the
\* response of that request; call.args is the request.
\* ------------------------------------------------------------------------
SessionIds == 1..MaxSessions
NoSession == [exists |-> FALSE, user_messages |-> 0, assistant_messages |-> 0, titled |-> FALSE]
NewSession == [NoSession EXCEPT !.exists = TRUE]
NoRequest == [session_id |-> 0, ask_ok |-> FALSE, commit_ok |-> FALSE]

\* An endpoint that stores the user's message before it asks
MessagesAddedUserFirst(askOk, commitOk) ==
    [user |-> 1, assistant |-> IF askOk /\ commitOk THEN 1 ELSE 0]

\* db.add(user_message), db.add(assistant_message) after ask_question has
\* returned, one db.commit(); db.rollback() on any exception
MessagesAdded(askOk, commitOk) ==
    IF askOk /\ commitOk THEN [user |-> 1, assistant |-> 1]
    ELSE [user |-> 0, assistant |-> 0]

ChatInit ==
    /\ NothingElse
    /\ call = [op |-> "ask_route", pc |-> "serving", args |-> NoRequest,
               result |-> [sessions |-> [s \in SessionIds |-> NoSession], next_id |-> 1,
                           status |-> "none", session |-> 0]]

\* POST /ask; session_id 0 stands for a request without session_id
AskRoute ==
    \E session_id \in 0..MaxSessions, askOk \in BOOLEAN, commitOk \in BOOLEAN :
        LET tables == call.result
            create == session_id = 0
            found  == session_id # 0 /\ tables.sessions[session_id].exists
            sid    == IF create THEN tables.next_id ELSE session_id
            opened == IF create THEN [tables.sessions EXCEPT ![sid] = NewSession]
                      ELSE tables.sessions
            added  == MessagesAdded(askOk, commitOk)
        IN
        /\ call.op = "ask_route"
        /\ (~askOk) => commitOk
        /\ create => tables.next_id <= MaxSessions
        /\ found => tables.sessions[session_id].user_messages < MaxTurns
        /\ call' = [call EXCEPT
               !.args = [session_id |-> session_id, ask_ok |-> askOk, commit_ok |-> commitOk],
               !.result =
                   IF (~create) /\ ~found
                   THEN [tables EXCEPT !.status = "not_found", !.session = session_id]
                   ELSE [sessions |-> [opened EXCEPT ![sid] =
                             [exists             |-> TRUE,
                              user_messages      |-> @.user_messages + added.user,
                              assistant_messages |-> @.assistant_messages + added.assistant,
                              titled             |-> @.titled \/ (askOk /\ commitOk)]],
                         next_id  |-> IF create THEN tables.next_id + 1 ELSE tables.next_id,
                         status   |-> IF askOk /\ commitOk THEN "ok" ELSE "error",
                         session  |-> sid]]
        /\ UNCHANGED <<chunkVars, mergeVars, chromaVars, deployment, qdrantVars>>

\* DELETE /sessions/{session_id}: the session goes with its messages
DeleteSession ==
    \E sid \in SessionIds :
        /\ call.op = "ask_route"
        /\ call.result.sessions[sid].exists
        /\ call' = [call EXCEPT
               !.args = NoRequest,
               !.result = [@ EXCEPT !.sessions[sid] = NoSession, !.status = "deleted",
                                    !.session = sid]]
        /\ UNCHANGED <<chunkVars, mergeVars, chromaVars, deployment, qdrantVars>>

\* ------------------------------------------------------------------------
\* Properties of chunk_transcript (checked under SpecChunk)
\* ------------------------------------------------------------------------
CeilDiv(a, b) == (a + b - 1) \div b

\* C8: for N segments, chunk_size c and overlap o < c, chunk_transcript
\* returns ceil(N / (c - o)) chunks when N > 0 and no chunk when N = 0; the
\* last window yields a chunk also when it holds fewer than c segments.
C8_ChunkCount ==
    chunk_pc = "done" =>
        /\ Len(chunks) = IF Len(entries) = 0 THEN 0
                         ELSE CeilDiv(Len(entries), chunk_size - overlap)
        /\ \A i \in 1..Len(chunks) : Len(chunks[i].text) >= 1

\* N = 12, c = 5, o = 1 gives 3 chunks, the last one a partial window
C8_Witness ==
    /\ chunk_pc = "done"
    /\ Len(entries) = 12 /\ chunk_size = 5 /\ overlap = 1
    /\ Len(chunks) = 3
    /\ Len(chunks[3].text) < chunk_size

\* C9: chunk number i (0-based) has index i, the start_time of segment
\* i * (c - o) and the end_time of the last segment of its window.
C9_ChunkTimes ==
    chunk_pc = "done" =>
        \A i \in 0..(Len(chunks) - 1) :
            LET first == i * (chunk_size - overlap) + 1
                last  == Min(i * (chunk_size - overlap) + chunk_size, Len(entries))
            IN  /\ chunks[i + 1].index = i
                /\ first <= Len(entries)
                /\ chunks[i + 1].start_time = entries[first].start_time
                /\ chunks[i + 1].end_time = entries[last].end_time

\* several chunks, with a window of more than one segment
C9_Witness ==
    /\ chunk_pc = "done"
    /\ Len(chunks) >= 3
    /\ overlap >= 1
    /\ chunks[2].start_time # chunks[2].end_time
    /\ Len(chunks[Len(chunks)].text) < chunk_size

\* the segments (by the text they carry, their position in the list) joined
\* into a chunk
SegmentsOf(chunk) == { chunk.text[k] : k \in 1..Len(chunk.text) }

\* C30: the chunks cover the transcript, every segment lies in the window of
\* some chunk, and two consecutive chunks have exactly min(o, size of the
\* later chunk) segments in common.
C30_ChunksCover ==
    (chunk_pc = "done" /\ entries # << >>) =>
        /\ \A k \in 1..Len(entries) :
               \E i \in 1..Len(chunks) : entries[k].text \in SegmentsOf(chunks[i])
        /\ \A i \in 1..(Len(chunks) - 1) :
               Cardinality(SegmentsOf(chunks[i]) \cap SegmentsOf(chunks[i + 1]))
                   = Min(overlap, Len(chunks[i + 1].text))

\* N = 5, c = 5, o = 4: five chunks, the last one smaller than the overlap
C30_Witness ==
    /\ chunk_pc = "done"
    /\ Len(entries) = 5 /\ chunk_size = 5 /\ overlap = 4
    /\ Len(chunks) = 5
    /\ Len(chunks[5].text) = 1
    /\ SegmentsOf(chunks[4]) \cap SegmentsOf(chunks[5]) = {5}

\* ------------------------------------------------------------------------
\* Properties of the merge and of the confidence score (checked under SpecMerge)
\* ------------------------------------------------------------------------
\* C1: the merged list never holds two entries with the same index,
\* whatever the two result lists are.
C1_NoDuplicateIndex ==
    merge_pc = "done" =>
        \A i, j \in 1..Len(merged) : i # j => merged[i].index # merged[j].index

\* the two lists overlap, and the result still has chunks of both
C1_Witness ==
    /\ merge_pc = "done"
    /\ IndicesOf(context_chunks) \cap IndicesOf(semantic_chunks) # {}
    /\ Len(merged) >= 2
    /\ \E k \in 1..Len(merged) : merged[k].distance # 0

\* C2: the confidence is an integer of 0..100 for every merged list and
\* every distance, and 0 for the empty list.
C2_ConfidenceRange ==
    merge_pc = "done" =>
        /\ confidence \in 0..100
        /\ (merged = << >> => confidence = 0)

\* a merged list whose average distance lies beyond 2: the unclamped score
\* is negative
C2_Witness ==
    /\ merge_pc = "done"
    /\ merged # << >>
    /\ BaseConfidence(merged) < 0
    /\ confidence = 0

\* C20 as stated: the merged list never has more than n_chunks * 2 entries.
C20_AtMostTwiceN ==
    merge_pc = "done" => Len(merged) <= 2 * n_chunks

\* C20, amended: the merged list has at most max(n_chunks * 2, number of
\* distinct context chunks) entries: every distinct context chunk is kept,
\* and a semantic chunk is appended only while fewer than n_chunks * 2
\* entries are there.
C20_CapOnSemanticOnly ==
    merge_pc = "done" =>
        LET kept == AddContext(context_chunks, {}, << >>) IN
        /\ Len(merged) <= Max(2 * n_chunks, Cardinality(IndicesOf(context_chunks)))
        /\ Len(kept) = Cardinality(IndicesOf(context_chunks))
        /\ SubSeq(merged, 1, Len(kept)) = kept
        /\ Len(merged) > Len(kept) => Len(merged) <= 2 * n_chunks

C20_Witness ==
    /\ merge_pc = "done"
    /\ n_chunks = 1
    /\ Len(merged) = 3
    /\ semantic_chunks # << >>

\* num / den (den > 0) rounded to the nearest integer, a tie going either way
Roundings(num, den) ==
    { (2 * num + den) \div (2 * den), -((den - 2 * num) \div (2 * den)) }

\* C22: for a non-empty merged list the confidence is the rounded value of
\* (1 - avgDistance / 2) * 100, clamped to 0..100, plus 10 (capped at 100)
\* exactly when the list has at least 3 chunks.
C22_RoundedConfidence ==
    (merge_pc = "done" /\ merged # << >>) =>
        \E r \in Roundings(100 * Len(merged) - 25 * SumDistance(merged), Len(merged)) :
            confidence = (IF Len(merged) >= 3 THEN Min(100, Max(0, Min(100, r)) + 10)
                          ELSE Max(0, Min(100, r)))

\* ------------------------------------------------------------------------
\* Properties of _get_chunks_by_timestamp (checked under SpecWindow)
\* ------------------------------------------------------------------------
WindowCallDone == call.op = "get_chunks_by_timestamp" /\ call.pc = "done"

\* the interval of p meets [t - w, t + w]
Intersects(p, t, w) == p.start_time <= t + w /\ p.end_time >= t - w

\* C21: when the stored chunks can be read, the context chunks are stored
\* chunks whose interval meets [t - w, t + w], each once and with distance
\* 0, all of them up to 5 and then the 5 nearest, in ascending order of
\* |start_time - t|; at t = 65, w = 30 the chunk [40, 50] is among them and
\* the chunk [10, 20] is not.
C21_TimestampWindow ==
    (WindowCallDone /\ call.result.ok) =>
        LET cs     == call.result.chunks
            t      == call.args.timestamp
            w      == call.args.window_seconds
            inWin  == { p \in call.args.coll : Intersects(p, t, w) }
            Key(c) == Abs(c.start_time - t)
            taken  == { p \in inWin : \E i \in 1..Len(cs) : cs[i].index = p.index }
        IN  /\ Len(cs) = Min(5, Cardinality(inWin))
            /\ \A i \in 1..Len(cs) :
                   /\ cs[i].distance = 0
                   /\ \E p \in inWin : cs[i] = Retrieved(p, 0)
            /\ \A i, j \in 1..Len(cs) : i < j =>
                   /\ cs[i].index # cs[j].index
                   /\ Key(cs[i]) <= Key(cs[j])
            /\ \A p \in inWin \ taken : \A i \in 1..Len(cs) : Key(cs[i]) <= Key(p)
            /\ (t = 65 /\ w = 30) =>
                   /\ StoredChunk(4) \in call.args.coll => StoredChunk(4) \in taken
                   /\ StoredChunk(1) \notin taken

C21_Witness ==
    /\ WindowCallDone
    /\ call.result.ok
    /\ call.args.timestamp = 65
    /\ call.args.window_seconds = 30
    /\ StoredChunk(1) \in call.args.coll
    /\ Cardinality({ p \in call.args.coll : Intersects(p, 65, 30) }) = 6
    /\ Len(call.result.chunks) = 5
    /\ \E i \in 1..5 : call.result.chunks[i].index = 4

\* ------------------------------------------------------------------------
\* Properties of parse_vtt (checked under SpecParse)
\* ------------------------------------------------------------------------
\* The cues of a caption file as the format has them: the blocks between
\* blank lines, header and comment lines apart
CueLines(block) == SelectSeq(block, LAMBDA l : l.kind \notin {"header", "note"})

RECURSIVE BlocksOf(_)
BlocksOf(blocks) ==
    IF blocks = << >> THEN << >>
    ELSE (IF CueLines(Head(blocks)) = << >> THEN << >> ELSE <<CueLines(Head(blocks))>>)
         \o BlocksOf(Tail(blocks))

InputCues(kinds) == BlocksOf(SplitCues(VttLines(kinds), << >>))

\* the timestamp line of a cue: its first line, or the one after an identifier
CueTimestamp(cue) ==
    IF cue[1].kind \in TimestampKinds THEN <<cue[1]>>
    ELSE IF Len(cue) >= 2 /\ cue[2].kind \in TimestampKinds THEN <<cue[2]>>
    ELSE << >>

\* the text of a cue: what is neither a timestamp line nor a leading identifier
CueText(cue) ==
    LET keep == { i \in 1..Len(cue) :
                    /\ cue[i].kind \notin TimestampKinds
                    /\ ~(i = 1 /\ cue[i].kind \in {"ident", "digits"}) }
        Nth(k) == CHOOSE i \in keep : Cardinality({ j \in keep : j < i }) = k - 1
    IN  [k \in 1..Cardinality(keep) |-> cue[Nth(k)].pos]

\* well-formed: a timestamp line that parses, and some text
WellFormed(cue) ==
    /\ CueTimestamp(cue) # << >>
    /\ CueTimestamp(cue)[1].kind \in {"ts_ok", "ts_settings", "ts_first", "ts_rev"}
    /\ CueText(cue) # << >>

SegmentOfCue(cue) ==
    [start_time |-> WrittenStart(CueTimestamp(cue)[1]),
     end_time   |-> WrittenEnd(CueTimestamp(cue)[1]),
     text       |-> CueText(cue)]

RECURSIVE WellFormedSegments(_)
WellFormedSegments(cues) ==
    IF cues = << >> THEN << >>
    ELSE (IF WellFormed(Head(cues)) THEN <<SegmentOfCue(Head(cues))>> ELSE << >>)
         \o WellFormedSegments(Tail(cues))

\* C11: parse_vtt returns exactly the well-formed cues of the file as
\* segments, in input order; a cue without a timestamp line, without text or
\* with a timestamp that does not parse gives no segment and does not keep
\* the cues after it from being parsed.
C11_ExactlyWellFormedCues ==
    (call.op = "parse_vtt" /\ call.pc = "done")
        => call.result = WellFormedSegments(InputCues(call.args))

\* C24: in every segment list parse_vtt returns, each segment starts no
\* later than it ends and no segment starts before the one in front of it,
\* whatever the order and the times of the cues in the file.
C24_SegmentsOrdered ==
    (call.op = "parse_vtt" /\ call.pc = "done") =>
        LET segs == call.result IN
        /\ \A i \in 1..Len(segs) : segs[i].start_time <= segs[i].end_time
        /\ \A i, j \in 1..Len(segs) : i < j => segs[i].start_time <= segs[j].start_time

\* ------------------------------------------------------------------------
\* Properties of the embedding calls (checked under SpecEmbed, SpecFallback)
\* ------------------------------------------------------------------------
EmbedCallDone == call.op \in {"_generate_embeddings", "embed_texts"} /\ call.pc = "done"

\* the vector that belongs to a text
OwnEmbedding(t) ==
    IF call.args.has_client THEN ProviderEmbedding(IF call.op = "embed_texts" THEN t ELSE Strip(t))
    ELSE fallback_embedding(t, call.args.dims)

\* C13: an embedding call returns one vector per input text, in input order,
\* for every list of texts, empty strings included, and an empty list for
\* the empty list.
C13_OneVectorPerText ==
    EmbedCallDone =>
        /\ call.args.texts = << >> => call.result = EmbedResult("ok", << >>)
        /\ call.result.status = "ok" =>
               /\ Len(call.result.vectors) = Len(call.args.texts)
               /\ \A k \in 1..Len(call.args.texts) :
                      call.result.vectors[k] = OwnEmbedding(call.args.texts[k])

C15_UpsertIdempotent ==
    (call.op \in {"upsert", "collection.add"} /\ call.pc = "done") =>
        /\ call.result.store = call.result.after_once
        /\ SeqToSet(call.args.batch) \subseteq call.result.store
        /\ \A p, q \in call.result.store : p.id = q.id => p = q
        /\ call.op = "upsert" => call.result.returned = UpsertReturn(call.args.batch)

\* ------------------------------------------------------------------------
\* Properties of the per-video Chroma collections
\* ------------------------------------------------------------------------
\* the step on which add_transcript_chunks returns True
AddReturns == ing.pc = "add" /\ ing'.pc = "idle"

\* C4: whenever add_transcript_chunks(video, chunks, clear_existing=True)
\* returns successfully, the video's collection holds exactly one point per
\* chunk of this call and nothing of an earlier ingestion, whether or not the
\* clearing step succeeded.
C4_ReplacesFullSet ==
    [][AddReturns => collections'[ing.video] = PointsOf(ing.video, ing.chunk_dicts)]_vars

\* the caption file with two cues, which chunk_transcript turns into one chunk
TwoSegmentTranscript == CHOOSE T \in Transcripts : SegCountOf(T) = 2

\* the step on which the second of two successive successful ingestions of
\* the two-cue caption file into video v returns
SecondIngestionReturns(v) ==
    /\ AddReturns
    /\ ing.video = v
    /\ ing.transcript = TwoSegmentTranscript
    /\ ingest_log[v] # << >>
    /\ ingest_log[v][Len(ingest_log[v])].transcript = TwoSegmentTranscript
    /\ Len(ingest_log'[v]) >= 2

FirstOfTwo(log) == log[Len(log) - 1]
SecondOfTwo(log) == log[Len(log)]

\* C5 (as stated): the second ingestion reports the chunk count of the first,
\* and afterwards the ids written by the first ingestion are absent from the
\* video's collection.
C5_OldIdsAbsent ==
    [][\A v \in Videos :
          SecondIngestionReturns(v) =>
              /\ SecondOfTwo(ingest_log'[v]).chunk_count = FirstOfTwo(ingest_log'[v]).chunk_count
              /\ FirstOfTwo(ingest_log'[v]).ids \cap IdsOf(collections'[v]) = {}]_vars

\* C5 (amended): the second ingestion reports the chunk count of the first
\* (one chunk), it writes the very id the first one wrote (the ids are
\* chunk_<video>_<index>), so that id is still in the video's collection
\* afterwards; when the second ingestion's clearing step succeeded the
\* collection holds that one point and nothing else.
C5_SameCountSameIds ==
    [][\A v \in Videos :
          SecondIngestionReturns(v) =>
              /\ SecondOfTwo(ingest_log'[v]).chunk_count = FirstOfTwo(ingest_log'[v]).chunk_count
              /\ SecondOfTwo(ingest_log'[v]).chunk_count = 1
              /\ SecondOfTwo(ingest_log'[v]).ids = FirstOfTwo(ingest_log'[v]).ids
              /\ FirstOfTwo(ingest_log'[v]).ids \subseteq IdsOf(collections'[v])
              /\ ing.cleared => collections'[v] = PointsOf(v, ing.chunk_dicts)]_vars

C5_Witness ==
    \E v \in Videos :
        /\ ing.pc = "idle"
        /\ Len(ingest_log[v]) = 2
        /\ ingest_log[v][1].transcript = TwoSegmentTranscript
        /\ ingest_log[v][2].transcript = TwoSegmentTranscript
        /\ SegCountOf(TwoSegmentTranscript) = 2
        /\ ingest_log[v][2].chunk_count = 1
        /\ IdsOf(collections[v]) = ingest_log[v][1].ids

\* an ingestion of video v whose captions gave no segment comes to its end:
\* _vectorize_transcript finds no chunk, or add_transcript_chunks, called by
\* process_transcript with no chunk, is left
ZeroSegmentIngestionEnds(v) ==
    \/ /\ ing.pc = "idle" /\ ing'.pc = "idle"
       /\ vectorization_status[v] \in {"absent", "pending"}
       /\ vectorization_status'[v] = "failed"
    \/ /\ ing.pc # "idle" /\ ing.video = v
       /\ ing.chunk_dicts = << >>
       /\ ing'.pc = "idle"

\* C12: when the captions of a video yield no usable segment the ingestion
\* fails, the video's vectorization_status ends as "failed", and no chunk is
\* indexed for the video afterwards, on a first ingestion and on a
\* re-ingestion alike.
C12_EmptyTranscriptFails ==
    [][\A v \in Videos :
          ZeroSegmentIngestionEnds(v) =>
              /\ vectorization_status'[v] = "failed"
              /\ collections'[v] = {}]_vars

\* C6: after a video is deleted through any of the deletion operations, the
\* index holds no point for that video.
C6_NoPointsAfterDeletion ==
    /\ \A v \in Videos : vectorization_status[v] = "deleted" => collections[v] = {}
    /\ \A v \in VideoIds :
           (q_last_op.op = "delete" /\ v \in q_last_op.videos)
               => IndexIdsOf(q_collection.points, v) = {}

\* C26: in every reachable state a video whose vectorization_status is
\* "completed" has a non-empty collection.
C26_CompletedHasChunks ==
    \A v \in Videos : vectorization_status[v] = "completed" => collections[v] # {}

\* an add_transcript_chunks call ends in _generate_embeddings
EmbeddingStepFails == ing.pc = "embed" /\ ing'.pc # "add" /\ ing' # ing

C3_VectorIdsMatchIndex ==
    \A v \in VideoIds :
        SeqToSet(knowledge_base[v].vector_ids) = IndexIdsOf(q_collection.points, v)

\* the step on which the vector store is constructed
StoreInitialised == (~rag_up) /\ rag_up'

\* C16: the start-up check deletes a collection of another dimension and
\* recreates it empty, leaves the points of a collection of the configured
\* dimension untouched, and in every case leaves a collection of the
\* configured dimension.
C16_SchemaReconciled ==
    [][StoreInitialised =>
          /\ q_collection'.exists
          /\ q_collection'.size = embedding_dimension
          /\ (q_collection.exists /\ q_collection.size # embedding_dimension)
                 => q_collection'.points = {}
          /\ (q_collection.exists /\ q_collection.size = embedding_dimension)
                 => q_collection'.points = q_collection.points]_vars

\* a collection that held points was found with another dimension
C16_Witness ==
    /\ q_last_op.op = "init"
    /\ rag_up
    /\ q_collection.exists
    /\ q_collection.size = embedding_dimension
    /\ q_collection.points = {}
    /\ \E v \in VideoIds : knowledge_base[v].vector_ids # << >>

PointsOfVideo(points, v) == { p \in points : p.video_id = v }

\* the step changes what the index holds for video w
QdrantChanged(w) ==
    PointsOfVideo(q_collection'.points, w) # PointsOfVideo(q_collection.points, w)

\* the step is the start-up check finding a collection of another dimension
DimensionReconciled ==
    /\ q_last_op'.op = "init"
    /\ ~rag_up
    /\ q_collection.exists
    /\ q_collection.size # embedding_dimension

\* C7 (as stated): an ingestion, re-ingestion, dimension reconciliation or
\* deletion changes the indexed points of no video but the ones it is
\* carried out for.
C7_PartitionsIndependent ==
    [][/\ \A w \in Videos : collections'[w] # collections[w] => ing.video = w
       /\ \A w \in VideoIds : QdrantChanged(w) => w \in q_last_op'.videos]_vars

\* C7 (amended): an ingestion, re-ingestion or deletion changes the indexed
\* points of no video but the ones it is carried out for (for an upload that
\* replaces a video: the replaced video and the new one); the dimension
\* reconciliation of the shared collection is the one exception, it drops
\* the points of every video.
C7_IndependentButReconciliation ==
    [][/\ \A w \in Videos : collections'[w] # collections[w] => ing.video = w
       /\ \A w \in VideoIds :
              QdrantChanged(w) => (w \in q_last_op'.videos \/ DimensionReconciled)
       /\ DimensionReconciled => q_collection'.points = {}]_vars

C7_Witness ==
    /\ q_last_op.op = "delete"
    /\ \E v \in q_last_op.videos : knowledge_base[v] = NoKB
    /\ \E w \in VideoIds \ q_last_op.videos :
           PointsOfVideo(q_collection.points, w) # {}

\* ------------------------------------------------------------------------
\* Properties of ask_question (checked under SpecAsk)
\* ------------------------------------------------------------------------
\* C10: a question on a video whose collection holds no chunk, with or
\* without a timestamp, returns without an error, with confidence 0 and no
\* referenced chunk, provided the model call succeeds.
C10_EmptyCollectionAnswer ==
    (answer.status # "none" /\ answer.zero_chunks /\ answer.llm_ok)
        => /\ answer.status = "ok"
           /\ answer.confidence = 0
           /\ answer.referenced_chunks = << >>

C10_Witness ==
    /\ answer.status = "ok"
    /\ answer.zero_chunks
    /\ answer.with_timestamp
    /\ answer.confidence = 0
    /\ vectorization_status[answer.video] = "failed"

\* C17: when the generation of the follow-up prompt fails, ask_question
\* still returns the answer with its referenced chunks and its confidence,
\* and the context prompt is absent.
C17_PromptFailureSwallowed ==
    (answer.status # "none" /\ answer.prompt_failed /\ answer.search_ok /\ answer.llm_ok)
        => /\ answer.status = "ok"
           /\ answer.context_prompt = "none"
           /\ answer.referenced_chunks # << >>
           /\ answer.confidence \in 0..100

C17_Witness ==
    /\ answer.status = "ok"
    /\ answer.prompt_failed
    /\ answer.with_timestamp
    /\ answer.context_prompt = "none"
    /\ Len(answer.referenced_chunks) >= 2

\* C18: an ingestion whose embedding call fails ends there: it does not go
\* back to an earlier step nor on to collection.add, the collection is left
\* as it is and a vectorized video is marked "failed"; a question whose
\* embedding call or model call fails ends as an error, with no result.
C18_ProviderFailureEnds ==
    /\ [][(ing.pc = "embed" /\ ing'.pc # "add" /\ ing' # ing)
            => /\ ing' = IdleIng
               /\ collections' = collections
               /\ ing.kind = "vectorize" =>
                      vectorization_status'[ing.video] = "failed"]_vars
    /\ []((answer.status # "none" /\ ~(answer.search_ok /\ answer.llm_ok))
            => /\ answer.status = "error"
               /\ answer.referenced_chunks = << >>)

C18_Witness ==
    /\ answer.status = "error"
    /\ answer.search_ok
    /\ ~answer.llm_ok
    /\ vectorization_status[answer.video] = "failed"
    /\ collections[answer.video] = {}
    /\ ing = IdleIng

\* ------------------------------------------------------------------------
\* Properties of the follow-up prompt (checked under SpecPrompt)
\* ------------------------------------------------------------------------
\* C23: a context prompt is returned only when a timestamp was given and at
\* least one context chunk was found, and a returned prompt has at most 100
\* characters.
C23_ContextPromptShort ==
    (call.op = "context_prompt" /\ call.pc = "done" /\ call.result.present) =>
        /\ call.args.has_timestamp
        /\ call.args.context_count >= 1
        /\ call.result.length <= 100

\* ------------------------------------------------------------------------
\* Properties of the /ask endpoint (checked under SpecChat)
\* ------------------------------------------------------------------------
\* C29: every chat session holds as many user messages as assistant
\* messages, and an ask that fails adds no message to any session.
C29_TurnsPersistedTogether ==
    /\ [](call.op = "ask_route" =>
             \A s \in SessionIds :
                 call.result.sessions[s].user_messages
                     = call.result.sessions[s].assistant_messages)
    /\ [][(call.op = "ask_route" /\ call' # call /\ call'.result.status = "error") =>
             \A s \in SessionIds :
                 /\ call'.result.sessions[s].user_messages
                        = call.result.sessions[s].user_messages
                 /\ call'.result.sessions[s].assistant_messages
                        = call.result.sessions[s].assistant_messages]_vars

C29_Witness ==
    /\ call.op = "ask_route"
    /\ call.result.status = "error"
    /\ ~call.args.ask_ok
    /\ call.args.session_id # 0
    /\ call.result.sessions[call.result.session].user_messages = 1
    /\ call.result.sessions[call.result.session].assistant_messages = 1

\* ------------------------------------------------------------------------
\* A question racing a re-ingestion of the same video (checked under SpecRace)
\* ------------------------------------------------------------------------
\* the collection of v holds chunks 0 .. n-1 for some n >= 1
FullyIndexed(v) ==
    LET coll == collections[v] IN
    /\ coll # {}
    /\ { p.index : p \in coll } = 0..(Cardinality(coll) - 1)

\* C19: a video is fully indexed whenever no ingestion runs, before a
\* re-ingestion and after it; between the clearing step and collection.add
\* of a re-ingestion its collection is empty, nothing keeps a question out of
\* that window, and a question answered from an empty collection is one that
\* searched inside the window of a re-ingestion of the same video.
C19_RaceWindow ==
    /\ [](ing.pc = "idle" => \A v \in deployment.videos : FullyIndexed(v))
    /\ []((ing.pc \in {"embed", "add"} /\ ing.cleared) =>
              /\ collections[ing.video] = {}
              /\ ask.pc = "idle" => ENABLED AskBegin)
    /\ [][(answer' # answer /\ answer'.status = "ok" /\ answer'.zero_chunks)
            => /\ ing.pc \in {"embed", "add"}
               /\ ing.cleared
               /\ ing.video = answer'.video]_vars

C19_Witness ==
    /\ answer.status = "ok"
    /\ answer.zero_chunks
    /\ answer.referenced_chunks = << >>
    /\ ing = IdleIng
    /\ FullyIndexed(answer.video)

\* the chunk set a complete ingestion of some caption file leaves for v
CompleteSets(v) == { PointsOf(v, process_video_transcript(T)) : T \in Transcripts }

\* C27: whatever a vector-store call of a question reads while the video is
\* re-ingested, the collection is the complete chunk set of one ingestion
\* or empty, never chunks of two ingestions side by side.
C27_NoMixture ==
    \A v \in deployment.videos : collections[v] = {} \/ collections[v] \in CompleteSets(v)

\* ------------------------------------------------------------------------
\* Properties of vectorization_status (checked under SpecLifecycle)
\* ------------------------------------------------------------------------
StatusMoves ==
    { <<"absent", "pending">>, <<"pending", "processing">>,
      <<"processing", "completed">>, <<"processing", "failed">>,
      <<"failed", "pending">> }

RunInFlight(v) ==
    ing.kind = "vectorize" /\ ing.video = v /\ ing.pc \in {"load", "clear", "embed", "add"}

ChunkOnly ==
    ChunkInit /\ MergeIdle /\ ChromaIdle /\ deployment = NoDeployment /\ QdrantIdle /\ CallIdle

SpecChunk == ChunkOnly /\ [][ChunkTranscript]_vars

\* the merge and the confidence of ask_question on their own
MergeOnly ==
    MergeInit /\ ChunkIdle /\ ChromaIdle /\ deployment = NoDeployment /\ QdrantIdle /\ CallIdle

SpecMerge == MergeOnly /\ [][MergeAndScore]_vars

\* parse_vtt called on its own
SpecParse == ParseInit /\ [][ParseVtt]_vars

\* the two embedding calls on their own
EmbedNext ==
    \/ GenerateEmbeddingsCall
    \/ EmbedTextsCall

SpecEmbed == EmbedInit /\ [][EmbedNext]_vars

\* the timestamp lookup on its own
SpecWindow == WindowInit /\ [][GetChunksByTimestampCall]_vars

\* the follow-up prompt on its own
SpecPrompt == PromptInit /\ [][ContextPromptCall]_vars

\* the chat endpoint serving one request after the other
ChatNext ==
    \/ AskRoute
    \/ DeleteSession

SpecChat == ChatInit /\ [][ChatNext]_vars

\* the fallback embedding called twice
FallbackNext ==
    \/ FallbackFirstCall
    \/ FallbackSecondCall

SpecFallback == FallbackInit /\ [][FallbackNext]_vars

\* a write of points applied twice
WriteNext ==
    \/ QdrantUpsertCall
    \/ ChromaAddCall

SpecWrite == WriteInit /\ [][WriteNext]_vars

\* a Chroma deployment whose videos get the ids in ids
ChromaWith(ids) ==
    /\ ChromaInit /\ ChunkIdle /\ MergeIdle /\ QdrantIdle /\ CallIdle
    /\ deployment = [stack |-> "chroma", videos |-> ids]

ChromaOnly == ChromaWith(Videos)

\* a Chroma deployment followed on its first videos only
ChromaFew == ChromaWith(1..NumFollowedVideos)

\* the lifecycle of the videos and of their collections
IngestNext ==
    \/ CreateVideo
    \/ TriggerVectorization
    \/ ResetFailedVideos
    \/ ProcessTranscript
    \/ ClearExisting
    \/ GenerateEmbeddings
    \/ AddToCollection
    \/ DeleteVideoRow

SpecIngest == ChromaOnly /\ [][IngestNext]_vars

\* ingestions and re-ingestions, each successful one noted in ingest_log
ReingestNext ==
    \/ CreateVideo
    \/ ProcessTranscript
    \/ ClearExisting
    \/ GenerateEmbeddings
    \/ AddToCollectionLogged

SpecReingest == ChromaFew /\ [][ReingestNext]_vars

\* questions asked while videos are ingested and re-ingested
AskNext ==
    \/ CreateVideo
    \/ ProcessTranscript
    \/ ClearExisting
    \/ GenerateEmbeddings
    \/ AddToCollection
    \/ AskBegin
    \/ AskFinish

SpecAsk == ChromaFew /\ [][AskNext]_vars

\* a Chroma deployment whose followed videos are completed and fully indexed
IndexedInit ==
    /\ ChunkIdle /\ MergeIdle /\ QdrantIdle /\ CallIdle
    /\ deployment = [stack |-> "chroma", videos |-> 1..NumFollowedVideos]
    /\ \E T \in Transcripts :
          /\ process_video_transcript(T) # << >>
          /\ collections = [v \in Videos |->
                 IF v \in 1..NumFollowedVideos
                 THEN PointsOf(v, process_video_transcript(T)) ELSE {}]
    /\ vectorization_status = [v \in Videos |->
           IF v \in 1..NumFollowedVideos THEN "completed" ELSE "absent"]
    /\ vectorization_error = [v \in Videos |-> "none"]
    /\ ing = IdleIng
    /\ ingest_log = [v \in Videos |-> << >>]
    /\ ask = IdleAsk
    /\ answer = NoAnswer

\* a re-ingestion that runs to its end: the caption file has cues and the
\* embeddings are obtained
ReingestBegin == ProcessTranscript /\ ing'.chunk_dicts # << >>

ReingestEmbed == GenerateEmbeddings /\ ing'.pc = "add"

\* questions asked while fully indexed videos are re-ingested
RaceNext ==
    \/ ReingestBegin
    \/ ClearExisting
    \/ ReingestEmbed
    \/ AddToCollection
    \/ AskBegin
    \/ AskFinish

SpecRace == IndexedInit /\ [][RaceNext]_vars

\* the videos table while videos are created, vectorized, reset, processed
\* again and deleted; a run of _vectorize_transcript that has started goes on
LifecycleNext ==
    \/ CreateVideoRow
    \/ TriggerRun
    \/ VectorizeStart
    \/ VectorizeLoad
    \/ ClearExisting
    \/ GenerateEmbeddings
    \/ AddToCollection
    \/ ResetFailedVideos
    \/ ProcessTranscript
    \/ DeleteVideoRow

SpecLifecycle ==
    /\ ChromaFew
    /\ [][LifecycleNext]_vars
    /\ WF_vars(VectorizeStart)
    /\ WF_vars(VectorizeLoad)
    /\ WF_vars(ClearExisting)
    /\ WF_vars(GenerateEmbeddings)
    /\ WF_vars(AddToCollection)

\* a deployment runs one of the two stacks
Init ==
    /\ ChunkIdle /\ MergeIdle /\ CallIdle
    /\ deployment \in { [stack |-> "chroma", videos |-> Videos],
                       [stack |-> "qdrant", videos |-> VideoIds] }
    /\ ChromaInit
    /\ IF deployment.stack = "qdrant" THEN QdrantInit ELSE QdrantIdle

Next ==
    \/ CreateVideo
    \/ TriggerVectorization
    \/ ResetFailedVideos
    \/ ProcessTranscript
    \/ ClearExisting
    \/ GenerateEmbeddings
    \/ AddToCollection
    \/ DeleteVideoRow
    \/ RestartProcess
    \/ InitRagService
    \/ UploadVideo
    \/ DeleteVideo

Spec == Init /\ [][Next]_vars

====
